---- MODULE Spec2Model ----
(***************************************************************************)
(* Model of smart_secretary.py: the auto-reply engine of a personal        *)
(* messaging account.  Each inbound event runs process_message as its own  *)
(* asyncio task; the tasks share the cooldown log file (read and written   *)
(* in worker threads through asyncio.to_thread) and the AdminStatusCache.  *)
(* A task's step is the code between two await points.  Time is the wall   *)
(* clock (time.time / datetime.now) in whole seconds.                      *)
(***************************************************************************)
EXTENDS Integers, FiniteSets, Sequences, TLC

\* ------------------------------------------------------------ bounds ----
\* The wall clock at start-up.  time.time() is far beyond every window the
\* program uses, so the clock starts beyond STATUS_CACHE_TTL_SEC.
StartTime == 40
\* The main specification lets the clock run MaxTime seconds.
MaxTime == 2
\* Inbound events delivered in one run.
MaxEvents == 2
\* Largest retry_after (FloodWaitError.seconds) of the transport.
MaxRetry == 2
\* Failures the environment injects in one run: I/O errors of the log file,
\* transport errors and rate limits, probe errors (a failing copy of the
\* backup is not counted: it changes nothing but the set of backups).
MaxFaults == 1
\* Times the process is killed and started again in one run.
MaxCrashes == 1
\* The cache specification lets the clock run CacheHorizon seconds.
CacheHorizon == 33
\* The classifier specification: instants 0..MaxInstant, thresholds
\* 0..MaxThreshold.
MaxInstant == 5
MaxThreshold == 3

\* ------------------------------------------------- program constants ----
\* The first three are settings read from config.json (seconds); the cache
\* ttl is fixed in the source.
CONVERSATION_THRESHOLD_SEC == 2
TYPING_DELAY_SEC == 1
ONLINE_THRESHOLD_SEC == 2
STATUS_CACHE_TTL_SEC == 30

\* Correspondents (event.sender_id).  Every inbound event gets its own
\* process_message task: task h handles the h-th event delivered.
Users == {"u1", "u2"}
Tasks == 1..MaxEvents

\* Optional[bool]: None is {}, a value v is {v}.
None == {}
Some(v) == {v}

\* ------------------------------------------------ log file contents -----
\* A JSON value of the log: a number (epoch seconds), an ISO-8601 string
\* (wall-clock seconds t, with a UTC offset when aware), a string that is
\* no date, or no entry at all for the key.
NoEntry == [k |-> "none", t |-> 0, aware |-> FALSE, off |-> 0]
Num(t) == [k |-> "num", t |-> t, aware |-> FALSE, off |-> 0]
Iso(t, off) == [k |-> "iso", t |-> t, aware |-> TRUE, off |-> off]
IsoNaive(t) == [k |-> "iso", t |-> t, aware |-> FALSE, off |-> 0]
BadString == [k |-> "bad", t |-> 0, aware |-> FALSE, off |-> 0]

EmptyLog == [u \in Users |-> NoEntry]
\* Size of the serialised log, in entries.
LogSize(l) == Cardinality({u \in Users : l[u] # NoEntry})

\* datetime.now(timezone.utc).isoformat(): an aware ISO string, offset +00:00.
NowIso(clock) == Iso(clock, 0)

\* ResponseManager._convert_to_timestamp
ConvertMutNaive(value) ==
    IF value.k = "num" THEN value.t
    ELSE IF value.k = "iso" THEN value.t
    ELSE 0

convert_to_timestamp(value) ==
    IF value.k = "num" THEN value.t
    ELSE IF value.k = "iso"
         THEN (IF value.aware THEN value.t - value.off ELSE value.t)
         ELSE 0

\* ResponseManager.should_reply, after the log is loaded.
ShouldReplyMutStrict(log, user_id, clock) ==
    IF log[user_id] = NoEntry THEN TRUE
    ELSE (clock - convert_to_timestamp(log[user_id])) > CONVERSATION_THRESHOLD_SEC

should_reply(log, user_id, clock) ==
    IF log[user_id] = NoEntry THEN TRUE
    ELSE (clock - convert_to_timestamp(log[user_id])) >= CONVERSATION_THRESHOLD_SEC

\* ------------------------------------------------ AdminStatusCache ------
InitialCache == [is_online |-> FALSE, timestamp |-> 0]

CacheGetMutInclusive(c, clock) ==
    IF (clock - c.timestamp) <= STATUS_CACHE_TTL_SEC THEN Some(c.is_online) ELSE None

AdminStatusCache_get(c, clock) ==
    IF (clock - c.timestamp) < STATUS_CACHE_TTL_SEC THEN Some(c.is_online) ELSE None

CacheSetMutKeepStamp(c, is_online, clock) ==
    [is_online |-> is_online, timestamp |-> c.timestamp]

AdminStatusCache_set(c, is_online, clock) ==
    [is_online |-> is_online, timestamp |-> clock]

\* ------------------------------------------------ presence signal -------
\* admin_user.status: UserStatusOnline, UserStatusRecently, UserStatusOffline
\* with was_online (an instant, or missing), or any other status object.
NoInstant == 0 - 1
StatusOnline == [type |-> "UserStatusOnline", was_online |-> NoInstant]
StatusRecently == [type |-> "UserStatusRecently", was_online |-> NoInstant]
StatusOffline(t) == [type |-> "UserStatusOffline", was_online |-> t]
StatusOther == [type |-> "UserStatusLastWeek", was_online |-> NoInstant]

\* check_admin_online_status, the classification of a fetched status.
ClassifyMutStrict(status, threshold, clock) ==
    IF status.type \in {"UserStatusOnline", "UserStatusRecently"} THEN TRUE
    ELSE IF status.type = "UserStatusOffline"
         THEN (IF status.was_online # NoInstant
               THEN (clock - status.was_online) < threshold
               ELSE FALSE)
         ELSE FALSE

classify(status, threshold, clock) ==
    IF status.type \in {"UserStatusOnline", "UserStatusRecently"} THEN TRUE
    ELSE IF status.type = "UserStatusOffline"
         THEN (IF status.was_online # NoInstant
               THEN (clock - status.was_online) <= threshold
               ELSE FALSE)
         ELSE FALSE

\* ------------------------------------------------------------ state -----
VARIABLES
    now,        \* the wall clock
    file,       \* RESPONSES_FILE on disk
    backups,    \* the unix timestamps of the .corrupted_<ts>.bak files
    cache,      \* status_cache.cache
    task,       \* the process_message tasks: position and locals; with the
                \* history of the event: outcome, verdict (of should_reply),
                \* probe (hit, ok, error), failed (the call that raised),
                \* flood_at and flood_sec (the FloodWaitError), wrote (what
                \* sync_save did to the file: no, truncated, yes)
    sent,       \* the replies delivered by event.reply
    typing,     \* the typing indicators delivered by SetTypingRequest
    probes,     \* the GetUsersRequest calls made
    events,     \* the inbound events delivered so far
    faults,     \* the failures injected so far
    crashes,    \* the times the process was killed and started again
    call        \* the last call of the component specifications

vars == <<now, file, backups, cache, task, sent, typing, probes, events, faults, crashes, call>>

\* The file: missing, parsable JSON ("ok", with its mapping), or unparsable
\* ("bad": truncated, partially written or otherwise invalid JSON).  len is
\* the length of the content in entries, 0 for an empty file.
MissingFile == [st |-> "missing", data |-> EmptyLog, len |-> 0]
JsonFile(l) == [st |-> "ok", data |-> l, len |-> LogSize(l)]
BadFile(n) == [st |-> "bad", data |-> EmptyLog, len |-> n]

\* The logs an earlier run or an earlier version may have left on disk.
\* The third log is what record_reply of an earlier run wrote one second
\* before start-up.
LegacyLogs ==
    { [u1 |-> Iso(StartTime - CONVERSATION_THRESHOLD_SEC + 2, 2), u2 |-> Num(StartTime - 1)],
      [u1 |-> IsoNaive(StartTime - 2), u2 |-> BadString],
      [u1 |-> NowIso(StartTime - 1), u2 |-> NoEntry] }

InitialFiles == {MissingFile, BadFile(1)} \cup {JsonFile(l) : l \in LegacyLogs}

IdleTask ==
    [ pc |-> "idle", sender_id |-> "u1", is_admin_online |-> None,
      log |-> EmptyLog, wake |-> 0,
      outcome |-> "", verdict |-> None, probe |-> "none", failed |-> "",
      flood_at |-> NoInstant, flood_sec |-> 0,
      wrote |-> "no" ]

NoCall == [op |-> "none", status |-> StatusOther, threshold |-> 0, at |-> 0,
           ret |-> None, again |-> None, set_value |-> None, set_at |-> NoInstant]

Init ==
    /\ now = StartTime
    /\ file \in InitialFiles
    /\ backups = {}
    /\ cache = InitialCache
    /\ task = [h \in Tasks |-> IdleTask]
    /\ sent = {}
    /\ typing = 0
    /\ probes = 0
    /\ events = 0
    /\ faults = 0
    /\ crashes = 0
    /\ call = NoCall

\* ------------------------------------------------ transport results -----
Flood(s) == [r |-> "flood", seconds |-> s]
TransportOk == [r |-> "ok", seconds |-> 0]
TransportError == [r |-> "error", seconds |-> 0]
TransportResults == {TransportOk, TransportError} \cup {Flood(s) : s \in 1..MaxRetry}

\* The statuses GetUsersRequest may report at time clock.
ProbeStatuses(clock) ==
    { StatusOnline, StatusRecently, StatusOther, StatusOffline(NoInstant),
      StatusOffline(clock - ONLINE_THRESHOLD_SEC),
      StatusOffline(clock - ONLINE_THRESHOLD_SEC - 1) }

\* ------------------------------------------------ load_log --------------
SyncLoadMutSwallow(f, io, copy_ok) ==
    IF f.st = "missing"
    THEN [raised |-> FALSE, log |-> EmptyLog, backup |-> FALSE]
    ELSE IF io = "ioerror" \/ f.st = "bad"
    THEN [raised |-> FALSE, log |-> EmptyLog, backup |-> copy_ok]
    ELSE [raised |-> FALSE, log |-> f.data, backup |-> FALSE]

\* sync_load: what one read of the file yields.  io is the outcome of
\* open/read ("ok" or "ioerror"), copy_ok that of shutil.copy.
sync_load(f, io, copy_ok) ==
    IF f.st = "missing"
    THEN [raised |-> FALSE, log |-> EmptyLog, backup |-> FALSE]
    ELSE IF io = "ioerror"
    THEN [raised |-> TRUE, log |-> EmptyLog, backup |-> FALSE]
    ELSE IF f.st = "bad"
    THEN [raised |-> FALSE, log |-> EmptyLog, backup |-> copy_ok]
    ELSE [raised |-> FALSE, log |-> f.data, backup |-> FALSE]

IoResults == {"ok", "ioerror"}

\* The failures one read of file f can meet: an I/O error when the file
\* exists, a failed copy when it is unparsable (inputs that make no
\* difference are left out).
LoadFaults(f, io, copy_ok) ==
    IF f.st = "missing" THEN (IF io = "ok" /\ copy_ok THEN 0 ELSE MaxFaults + 1)
    ELSE IF io = "ioerror" THEN (IF copy_ok THEN 1 ELSE MaxFaults + 1)
    ELSE IF f.st = "bad" THEN 0
    ELSE (IF copy_ok THEN 0 ELSE MaxFaults + 1)

\* The environment injects n failures in this step.
Inject(n) ==
    /\ faults + n <= MaxFaults
    /\ faults' = faults + n

\* ------------------------------------------------ process_message -------
Done(t, outcome) ==
    [t EXCEPT !.pc = "done", !.outcome = outcome, !.log = EmptyLog, !.wake = 0]

FloodWaitMutNoSleep(t, seconds, clock) ==
    [t EXCEPT !.pc = "flood_sleep", !.wake = clock,
              !.flood_at = clock, !.flood_sec = seconds]

\* except FloodWaitError: asyncio.sleep(e.seconds)
FloodWait(t, seconds, clock) ==
    [t EXCEPT !.pc = "flood_sleep", !.wake = clock + seconds,
              !.flood_at = clock, !.flood_sec = seconds]

ExceptMutRecord(t, res, clock) ==
    IF res.r = "flood"
    THEN FloodWait([t EXCEPT !.failed = t.pc], res.seconds, clock)
    ELSE [t EXCEPT !.failed = t.pc, !.pc = "save_load", !.wake = 0]

\* The except clauses of process_message, for a failed transport call.
Except(t, res, clock) ==
    IF res.r = "flood"
    THEN FloodWait([t EXCEPT !.failed = t.pc], res.seconds, clock)
    ELSE Done([t EXCEPT !.failed = t.pc], "error")

EventKinds == {"incoming", "out", "not_user", "bot", "get_chat_error"}

ReceiveMutBlockingSleep(h, u, kind) ==
    /\ \A g \in Tasks : ~(task[g].pc \in {"reply", "flood_sleep"} /\ now < task[g].wake)
    /\ task[h].pc = "idle"
    /\ h = events + 1
    /\ events' = events + 1
    /\ Inject(IF kind = "get_chat_error" THEN 1 ELSE 0)
    /\ task' = [task EXCEPT ![h] =
          IF kind = "incoming"
          THEN [IdleTask EXCEPT !.pc = "should_reply", !.sender_id = u]
          ELSE IF kind = "get_chat_error"
          THEN Done([IdleTask EXCEPT !.sender_id = u, !.failed = "get_chat"], "escaped")
          ELSE Done([IdleTask EXCEPT !.sender_id = u], "filtered")]
    /\ UNCHANGED <<now, file, backups, cache, sent, typing, probes, crashes, call>>

\* A handler is invoked: the filters of process_message up to should_reply.
Receive(h, u, kind) ==
    /\ task[h].pc = "idle"
    /\ h = events + 1
    /\ events' = events + 1
    /\ Inject(IF kind = "get_chat_error" THEN 1 ELSE 0)
    /\ task' = [task EXCEPT ![h] =
          IF kind = "incoming"
          THEN [IdleTask EXCEPT !.pc = "should_reply", !.sender_id = u]
          ELSE IF kind = "get_chat_error"
          THEN Done([IdleTask EXCEPT !.sender_id = u, !.failed = "get_chat"], "escaped")
          ELSE Done([IdleTask EXCEPT !.sender_id = u], "filtered")]
    /\ UNCHANGED <<now, file, backups, cache, sent, typing, probes, crashes, call>>

StatusCacheMutAlwaysProbe(t, clock) == [t EXCEPT !.pc = "GetUsersRequest"]

\* check_admin_online_status up to the probe: status_cache.get()
StatusCache(t, clock) ==
    LET cached_status == AdminStatusCache_get(cache, clock)
    IN IF cached_status # None
       THEN [t EXCEPT !.pc = "SetTypingRequest", !.probe = "hit",
                      !.is_admin_online = cached_status]
       ELSE [t EXCEPT !.pc = "GetUsersRequest"]

RefusedMutGoesOn(t, clock) == StatusCache([t EXCEPT !.verdict = Some(FALSE)], clock)

\* if not await ResponseManager.should_reply(sender_id): return
Refused(t, clock) == Done([t EXCEPT !.verdict = Some(FALSE)], "cooldown")

\* await ResponseManager.should_reply(sender_id); when it allows the reply,
\* event.get_input_chat() (res) and the cache lookup follow without the
\* task being suspended.
ShouldReply(h, io, copy_ok, res) ==
    /\ task[h].pc = "should_reply"
    /\ LET r == sync_load(file, io, copy_ok)
           v == should_reply(r.log, task[h].sender_id, now)
       IN /\ Inject(LoadFaults(file, io, copy_ok)
                    + (IF r.raised \/ ~v THEN (IF res.r = "ok" THEN 0 ELSE MaxFaults + 1)
                       ELSE (IF res.r = "ok" THEN 0 ELSE 1)))
          /\ backups' = IF r.backup THEN backups \cup {now} ELSE backups
          /\ task' = [task EXCEPT ![h] =
                IF r.raised THEN Done([@ EXCEPT !.failed = "should_reply"], "escaped")
                ELSE IF ~v THEN Refused(@, now)
                ELSE IF res.r # "ok"
                THEN Except([@ EXCEPT !.pc = "get_input_chat", !.verdict = Some(TRUE)],
                            res, now)
                ELSE StatusCache([@ EXCEPT !.verdict = Some(TRUE)], now)]
    /\ UNCHANGED <<now, file, cache, sent, typing, probes, events, crashes, call>>

LiveCheckMutOnline(failed, status, clock) ==
    IF failed THEN TRUE ELSE classify(status, ONLINE_THRESHOLD_SEC, clock)

\* check_admin_online_status, the live check: the classification of the
\* fetched status, or False when the request raised.
LiveCheck(failed, status, clock) ==
    IF failed THEN FALSE ELSE classify(status, ONLINE_THRESHOLD_SEC, clock)

\* await client(GetUsersRequest(...)), then status_cache.set(is_online)
GetUsers(h, failed, status) ==
    /\ task[h].pc = "GetUsersRequest"
    /\ Inject(IF failed THEN 1 ELSE 0)
    /\ LET is_online == LiveCheck(failed, status, now)
       IN /\ cache' = AdminStatusCache_set(cache, is_online, now)
          /\ task' = [task EXCEPT ![h] =
                [@ EXCEPT !.pc = "SetTypingRequest",
                          !.probe = IF failed THEN "error" ELSE "ok",
                          !.is_admin_online = Some(is_online)]]
    /\ probes' = probes + 1
    /\ UNCHANGED <<now, file, backups, sent, typing, events, crashes, call>>

\* await client(SetTypingRequest(...)), then asyncio.sleep(TYPING_DELAY_SEC)
SetTyping(h, res) ==
    /\ task[h].pc = "SetTypingRequest"
    /\ Inject(IF res.r = "ok" THEN 0 ELSE 1)
    /\ task' = [task EXCEPT ![h] =
          IF res.r = "ok"
          THEN [@ EXCEPT !.pc = "reply", !.wake = now + TYPING_DELAY_SEC]
          ELSE Except(@, res, now)]
    /\ typing' = IF res.r = "ok" THEN typing + 1 ELSE typing
    /\ UNCHANGED <<now, file, backups, cache, sent, probes, events, crashes, call>>

\* the sleep is over: await event.reply(final_response_text)
Reply(h, res) ==
    /\ task[h].pc = "reply"
    /\ now >= task[h].wake
    /\ Inject(IF res.r = "ok" THEN 0 ELSE 1)
    /\ task' = [task EXCEPT ![h] =
          IF res.r = "ok"
          THEN [@ EXCEPT !.pc = "save_load", !.wake = 0]
          ELSE Except(@, res, now)]
    /\ sent' = IF res.r = "ok"
               THEN sent \cup {[to |-> task[h].sender_id, at |-> now, by |-> h,
                                online |-> task[h].is_admin_online]}
               ELSE sent
    /\ UNCHANGED <<now, file, backups, cache, typing, probes, events, crashes, call>>

\* save_log: log = await load_log(); log[user_id] = now_iso
SaveLoad(h, io, copy_ok) ==
    /\ task[h].pc = "save_load"
    /\ Inject(LoadFaults(file, io, copy_ok))
    /\ LET r == sync_load(file, io, copy_ok)
       IN /\ backups' = IF r.backup THEN backups \cup {now} ELSE backups
          /\ task' = [task EXCEPT ![h] =
                IF r.raised THEN Done([@ EXCEPT !.failed = "save_log"], "error")
                ELSE [@ EXCEPT !.pc = "save_open",
                               !.log = [r.log EXCEPT ![task[h].sender_id] = NowIso(now)]]]
    /\ UNCHANGED <<now, file, cache, sent, typing, probes, events, crashes, call>>

\* sync_save: open(RESPONSES_FILE, 'w') truncates the file
SaveOpen(h, io) ==
    /\ task[h].pc = "save_open"
    /\ Inject(IF io = "ok" THEN 0 ELSE 1)
    /\ IF io = "ok"
       THEN /\ file' = BadFile(0)
            /\ task' = [task EXCEPT ![h] = [@ EXCEPT !.pc = "save_dump",
                                                     !.wrote = "truncated"]]
       ELSE /\ file' = file
            /\ task' = [task EXCEPT ![h] = Done([@ EXCEPT !.failed = "sync_save"], "replied")]
    /\ UNCHANGED <<now, backups, cache, sent, typing, probes, events, crashes, call>>

\* What the file holds after this writer's buffer is flushed at offset 0: its
\* own content, followed by the tail of a longer content another writer
\* flushed after this writer's open.
Flushed(f, l) ==
    IF f.len > LogSize(l) THEN BadFile(f.len) ELSE JsonFile(l)

\* sync_save: json.dump(log, f) and the close of the file
SaveDump(h, io) ==
    /\ task[h].pc = "save_dump"
    /\ Inject(IF io = "ok" THEN 0 ELSE 1)
    /\ IF io = "ok"
       THEN /\ file' = Flushed(file, task[h].log)
            /\ task' = [task EXCEPT ![h] = Done([@ EXCEPT !.wrote = "yes"], "replied")]
       ELSE /\ file' = file
            /\ task' = [task EXCEPT ![h] = Done([@ EXCEPT !.failed = "sync_save"], "replied")]
    /\ UNCHANGED <<now, backups, cache, sent, typing, probes, events, crashes, call>>

\* except FloodWaitError: the sleep of e.seconds is over
FloodWake(h) ==
    /\ task[h].pc = "flood_sleep"
    /\ now >= task[h].wake
    /\ task' = [task EXCEPT ![h] = Done(@, "flood")]
    /\ UNCHANGED <<now, file, backups, cache, sent, typing, probes, events, faults, crashes, call>>

\* What is left of a task when the process dies: nothing of its locals; the
\* history keeps whose event it was and what it did to the file.
Crashed(t) ==
    [IdleTask EXCEPT !.pc = "crashed", !.sender_id = t.sender_id, !.wrote = t.wrote]

\* The process is killed (or leaves asyncio.run) and main() runs again: the
\* tasks under way are gone, the AdminStatusCache is new, the file is as the
\* last completed system call left it.
Crash ==
    /\ crashes < MaxCrashes
    /\ crashes' = crashes + 1
    /\ task' = [h \in Tasks |-> IF task[h].pc = "idle" THEN IdleTask ELSE Crashed(task[h])]
    /\ cache' = InitialCache
    /\ UNCHANGED <<now, file, backups, sent, typing, probes, events, faults, call>>

Tick ==
    /\ now < StartTime + MaxTime
    /\ now' = now + 1
    /\ UNCHANGED <<file, backups, cache, task, sent, typing, probes, events, faults, crashes, call>>

Next ==
    \/ \E h \in Tasks, u \in Users, kind \in EventKinds : Receive(h, u, kind)
    \/ \E h \in Tasks, io \in IoResults, copy_ok \in BOOLEAN, res \in TransportResults :
          ShouldReply(h, io, copy_ok, res)
    \/ \E h \in Tasks, failed \in BOOLEAN, status \in ProbeStatuses(now) :
          GetUsers(h, failed, status)
    \/ \E h \in Tasks, res \in TransportResults : SetTyping(h, res)
    \/ \E h \in Tasks, res \in TransportResults : Reply(h, res)
    \/ \E h \in Tasks, io \in IoResults, copy_ok \in BOOLEAN : SaveLoad(h, io, copy_ok)
    \/ \E h \in Tasks, io \in IoResults : SaveOpen(h, io)
    \/ \E h \in Tasks, io \in IoResults : SaveDump(h, io)
    \/ \E h \in Tasks : FloodWake(h)
    \/ Crash
    \/ Tick

Spec == Init /\ [][Next]_vars

\* ------------------------------------------------ the classifier alone ---
\* classify applied to every status, threshold and instant of a bounded set.
Statuses ==
    {StatusOnline, StatusRecently, StatusOther, StatusOffline(NoInstant)}
    \cup {StatusOffline(t) : t \in 0..MaxInstant}

InitClassify ==
    /\ now = StartTime
    /\ file = MissingFile
    /\ backups = {}
    /\ cache = InitialCache
    /\ task = [h \in Tasks |-> IdleTask]
    /\ sent = {}
    /\ typing = 0
    /\ probes = 0
    /\ events = 0
    /\ faults = 0
    /\ crashes = 0
    /\ call \in {[NoCall EXCEPT !.op = "input", !.status = s, !.threshold = th, !.at = t] :
                    s \in Statuses, th \in 0..MaxThreshold, t \in 0..MaxInstant}

Classify ==
    /\ call.op = "input"
    /\ call' = [call EXCEPT !.op = "classify",
                            !.ret = Some(classify(call.status, call.threshold, call.at))]
    /\ UNCHANGED <<now, file, backups, cache, task, sent, typing, probes, events, faults, crashes>>

ClassifyAgain ==
    /\ call.op = "classify"
    /\ call' = [call EXCEPT !.op = "again",
                            !.again = Some(classify(call.status, call.threshold, call.at))]
    /\ UNCHANGED <<now, file, backups, cache, task, sent, typing, probes, events, faults, crashes>>

NextClassify == Classify \/ ClassifyAgain

SpecClassify == InitClassify /\ [][NextClassify]_vars

\* ------------------------------------------------ the cache alone --------
\* AdminStatusCache driven by set and get calls while the clock runs.
InitCache ==
    /\ now = StartTime
    /\ file = MissingFile
    /\ backups = {}
    /\ cache = InitialCache
    /\ task = [h \in Tasks |-> IdleTask]
    /\ sent = {}
    /\ typing = 0
    /\ probes = 0
    /\ events = 0
    /\ faults = 0
    /\ crashes = 0
    /\ call = NoCall

CacheSet(is_online) ==
    /\ cache' = AdminStatusCache_set(cache, is_online, now)
    /\ call' = [call EXCEPT !.op = "set", !.ret = None, !.at = now,
                            !.set_value = Some(is_online), !.set_at = now]
    /\ UNCHANGED <<now, file, backups, task, sent, typing, probes, events, faults, crashes>>

CacheGet ==
    /\ call' = [call EXCEPT !.op = "get", !.at = now,
                            !.ret = AdminStatusCache_get(cache, now)]
    /\ UNCHANGED <<now, file, backups, cache, task, sent, typing, probes, events, faults, crashes>>

CacheTick ==
    /\ now < StartTime + CacheHorizon
    /\ now' = now + 1
    /\ UNCHANGED <<file, backups, cache, task, sent, typing, probes, events, faults, crashes, call>>

NextCache == (\E is_online \in BOOLEAN : CacheSet(is_online)) \/ CacheGet \/ CacheTick

SpecCache == InitCache /\ [][NextCache]_vars

\* -------------------------------------------------------- properties ----
Replied(h) == \E s \in sent : s.by = h
Abs(n) == IF n < 0 THEN 0 - n ELSE n

\* C1: at most one reply goes to a correspondent within one cooldown window,
\* however the handlers of that correspondent's events interleave: two
\* replies to the same correspondent are at least CONVERSATION_THRESHOLD_SEC
\* apart (here: in the runs without an injected failure and without an
\* unparsable log).
C1_OneReplyPerWindow ==
    (faults = 0 /\ backups = {}) =>
        \A a \in sent, b \in sent :
            (a # b /\ a.to = b.to) => Abs(a.at - b.at) >= CONVERSATION_THRESHOLD_SEC

\* The instant a persisted value stands for (spec 4.1): epoch seconds as they
\* are, an ISO string with a zone as that instant in UTC, one without a zone
\* as UTC, a malformed string as epoch 0.
LastReplyAt(value) ==
    CASE value.k = "num" -> value.t
      [] value.k = "iso" /\ value.aware -> value.t - value.off
      [] value.k = "iso" /\ ~value.aware -> value.t
      [] OTHER -> 0

\* The entry the file on disk holds for correspondent c.
Persisted(f, c) == IF f.st = "ok" THEN f.data[c] ELSE NoEntry

\* C2: should_reply(c) is true exactly when the persisted log has no entry
\* for c or now - last_reply_at(c) >= cooldown_window; an entry written by
\* record_reply at t1 makes it false at t1 + D for D < cooldown_window and
\* true for D >= cooldown_window.
C2_ShouldReplyContract ==
    [][\A h \in Tasks :
         (task[h].pc = "should_reply" /\ task'[h].verdict # None) =>
            LET c == task[h].sender_id
                entry == Persisted(file, c)
            IN /\ task'[h].verdict =
                     Some(entry = NoEntry
                          \/ now - LastReplyAt(entry) >= CONVERSATION_THRESHOLD_SEC)
               /\ \A t1 \in 0..now :
                     entry = NowIso(t1) =>
                        task'[h].verdict = Some(now - t1 >= CONVERSATION_THRESHOLD_SEC)]_vars

\* C2 witness: a handler recorded its reply to c, and the handler of c's next
\* event was refused inside the window.
C2_Witness ==
    \E h \in Tasks, g \in Tasks :
        /\ task[h].wrote = "yes" /\ task[g].outcome = "cooldown"
        /\ task[h].sender_id = task[g].sender_id
        /\ \E t1 \in 0..now : /\ Persisted(file, task[g].sender_id) = NowIso(t1)
                              /\ now - t1 < CONVERSATION_THRESHOLD_SEC

\* C3: when should_reply is false the event ends there with no side effect:
\* no probe, no cache update, no typing indicator, no reply, no change of
\* the log file (nor a backup of it).
C3_RefusalHasNoEffect ==
    [][\A h \in Tasks :
         (task[h].pc = "should_reply" /\ task'[h].verdict = Some(FALSE)) =>
            /\ task'[h].pc = "done"
            /\ UNCHANGED <<file, backups, cache, sent, typing, probes>>]_vars

C3_Witness ==
    \E h \in Tasks :
        /\ task[h].outcome = "cooldown" /\ task[h].verdict = Some(FALSE)
        /\ sent = {} /\ typing = 0 /\ probes = 0

C5_FailureWritesNoLog ==
    \A h \in Tasks :
        task[h].failed \in {"SetTypingRequest", "reply"} =>
            /\ task[h].wrote = "no"
            /\ task[h].pc \in {"flood_sleep", "done"}
            /\ ~Replied(h)

C5_Witness ==
    \E h \in Tasks :
        /\ task[h].pc = "done" /\ task[h].outcome = "error"
        /\ task[h].failed = "reply" /\ task[h].wrote = "no"

\* C6: after a FloodWaitError the handler sleeps the seconds the transport
\* named and then ends the event: it is not finished before flood_at +
\* seconds, it sends nothing and writes no cooldown entry.
C6_FloodSleepsThenAbandons ==
    \A h \in Tasks :
        task[h].flood_sec > 0 =>
            /\ task[h].pc \in {"flood_sleep", "done"}
            /\ task[h].pc = "flood_sleep" =>
                  task[h].wake = task[h].flood_at + task[h].flood_sec
            /\ task[h].pc = "done" =>
                  /\ task[h].outcome = "flood"
                  /\ now >= task[h].flood_at + task[h].flood_sec
            /\ task[h].wrote = "no"
            /\ ~Replied(h)

C6_Witness ==
    \E h \in Tasks :
        /\ task[h].pc = "done" /\ task[h].outcome = "flood"
        /\ task[h].flood_sec > TYPING_DELAY_SEC
        /\ now = task[h].flood_at + task[h].flood_sec

RefClassify(signal, online_threshold, clock) ==
    CASE signal \in {StatusOnline, StatusRecently} -> TRUE
      [] signal.type = "UserStatusOffline" /\ signal.was_online # NoInstant ->
            clock - signal.was_online <= online_threshold
      [] OTHER -> FALSE

\* C8: the classification of a presence signal is the reference function:
\* ActiveNow and RecentlyActive are reachable, Offline with last_seen t
\* exactly when now - t <= online_threshold, Offline without last_seen and
\* every other status are not; classifying the same input again gives the
\* same answer.
C8_ClassifyIsReference ==
    /\ call.op \in {"classify", "again"} =>
          call.ret = Some(RefClassify(call.status, call.threshold, call.at))
    /\ call.op = "again" => call.again = call.ret

C8_Witness ==
    /\ call.op = "again"
    /\ call.status.type = "UserStatusOffline"
    /\ call.status.was_online # NoInstant
    /\ call.at - call.status.was_online = call.threshold
    /\ call.threshold > 0
    /\ call.ret = Some(TRUE)

\* C9: get() returns the value of the most recent set() while now -
\* observed_at < ttl and no value from then on (and no value before any
\* set()); set() overwrites the entry whatever it held.
C9_CacheTtl ==
    /\ call.op = "get" =>
          call.ret = (IF call.set_at # NoInstant
                         /\ call.at - call.set_at < STATUS_CACHE_TTL_SEC
                      THEN call.set_value ELSE None)
    /\ call.op = "set" =>
          /\ Some(cache.is_online) = call.set_value
          /\ cache.timestamp = call.set_at

C9_Witness ==
    /\ call.op = "get"
    /\ call.set_value = Some(TRUE)
    /\ call.at = call.set_at + STATUS_CACHE_TTL_SEC
    /\ call.ret = None

\* C10: record_reply operations that complete lose no update: when no
\* failure was injected, no load met an unparsable file and no handler is
\* under way, the log holds an entry for every correspondent whose reply
\* was recorded.
C10_NoLostUpdate ==
    (/\ faults = 0 /\ backups = {} /\ file.st = "ok"
     /\ \A h \in Tasks : task[h].pc \in {"idle", "done"})
    => \A h \in Tasks :
          task[h].wrote = "yes" => Persisted(file, task[h].sender_id) # NoEntry

\* Task h completes a load_log in this step (that of should_reply or that of
\* save_log).
Loads(h) ==
    /\ task[h].pc \in {"should_reply", "save_load"}
    /\ task'[h].pc \notin {task[h].pc, "crashed"}

\* The outcome of the load of task h in this step is a RuntimeError.
LoadRaised(h) == task'[h].failed \in {"should_reply", "save_log"}

\* C11: a load never reads the file while a save_log of another handler has
\* it open and truncated: it never takes a write under way for a corrupt
\* file.
C11_LoadSeesNoWriteUnderWay ==
    [][\A h \in Tasks :
         (Loads(h) /\ ~LoadRaised(h)) =>
            ~(file.st = "bad" /\ \E g \in Tasks \ {h} : task[g].pc = "save_dump")]_vars

\* C12: a load that finds the file unparsable (and meets no I/O error)
\* returns the empty log without raising and creates the backup named by
\* the second of the load; the handler goes on as for a correspondent with
\* no entry.
C12_CorruptLoadBacksUp ==
    [][\A h \in Tasks :
         (Loads(h) /\ file.st = "bad" /\ faults' = faults) =>
            /\ ~LoadRaised(h)
            /\ backups' = backups \cup {now}
            /\ task[h].pc = "should_reply" => task'[h].verdict = Some(TRUE)
            /\ task[h].pc = "save_load" =>
                  task'[h].log = [EmptyLog EXCEPT ![task[h].sender_id] = NowIso(now)]]_vars

C14_StorageFailureEscapes ==
    \A h \in Tasks :
        task[h].failed \in {"should_reply", "save_log", "sync_save"} =>
            task[h].outcome = "escaped"

\* C15: no failure but that of the log storage leaves process_message as an
\* exception.
C15_OnlyStorageFailureEscapes ==
    \A h \in Tasks :
        task[h].outcome = "escaped" => task[h].failed \in {"should_reply", "save_log", "sync_save"}

\* C16: the cooldown survives a restart: after a crash, whenever no write
\* is under way, should_reply evaluated on the persisted file is false for
\* every correspondent whose record_reply completed (after a reply sent
\* less than the window ago).
C16_CooldownSurvivesRestart ==
    (crashes > 0 /\ \A g \in Tasks : task[g].pc # "save_dump") =>
        \A h \in Tasks : \A s \in sent :
            (s.by = h /\ task[h].wrote = "yes"
             /\ now - s.at < CONVERSATION_THRESHOLD_SEC) =>
                ~should_reply(sync_load(file, "ok", TRUE).log, s.to, now)

\* The handler of task h is suspended at an await: the typing delay, a
\* rate-limit backoff, the probe, the I/O of the log.
Suspended(h) == task[h].pc \notin {"idle", "done", "crashed"}

\* The next step of task g can be taken now (for a sleeping task: once its
\* sleep is over; for the next event: it can be delivered).
Runnable(g) ==
    CASE task[g].pc = "idle" ->
            g = events + 1 => \A u \in Users : ENABLED Receive(g, u, "incoming")
      [] task[g].pc = "should_reply" -> ENABLED ShouldReply(g, "ok", TRUE, TransportOk)
      [] task[g].pc = "GetUsersRequest" -> ENABLED GetUsers(g, FALSE, StatusOnline)
      [] task[g].pc = "SetTypingRequest" -> ENABLED SetTyping(g, TransportOk)
      [] task[g].pc = "reply" -> now >= task[g].wake => ENABLED Reply(g, TransportOk)
      [] task[g].pc = "save_load" -> ENABLED SaveLoad(g, "ok", TRUE)
      [] task[g].pc = "save_open" -> ENABLED SaveOpen(g, "ok")
      [] task[g].pc = "save_dump" -> ENABLED SaveDump(g, "ok")
      [] task[g].pc = "flood_sleep" -> now >= task[g].wake => ENABLED FloodWake(g)
      [] OTHER -> TRUE

\* C17: a suspended handler holds nobody up: while one handler is in its
\* typing delay (or in a backoff, the probe, the I/O of the log) every other
\* handler can take its next step and the next event can be delivered, up
\* to the reply and the write of the log.
C17_SuspendedHoldsNobodyUp ==
    \A h \in Tasks : \A g \in Tasks \ {h} : Suspended(h) => Runnable(g)

C17_Witness ==
    \E h \in Tasks : \E g \in Tasks \ {h} :
        /\ task[h].pc = "reply"
        /\ now < task[h].wake
        /\ task[g].sender_id # task[h].sender_id
        /\ task[g].outcome = "replied"
        /\ task[g].wrote = "yes"
        /\ \E s \in sent : s.by = g
        /\ Persisted(file, task[g].sender_id) # NoEntry

\* C18: the write that replaces an unparsable log file comes after a
\* successful copy of that file to a backup.
C18_BackupBeforeOverwrite ==
    [][\A h \in Tasks :
         (/\ task[h].pc = "save_open" /\ task'[h].pc = "save_dump"
          /\ file.st = "bad" /\ file.len > 0) => backups # {}]_vars

\* Task h completes its probe in this step.
Probes(h) ==
    /\ task[h].pc = "GetUsersRequest"
    /\ task'[h].pc \notin {"GetUsersRequest", "crashed"}

\* C19: a handler takes the cached status exactly when the entry is
\* younger than the ttl, and then neither probes nor changes the cache; it
\* goes to the probe exactly on a miss, probes once, and set() has stored
\* the result (at the time of the probe) when it goes on; the reply sent is
\* the variant of the status the handler obtained so.
C19_HitOrOneProbe ==
    [][/\ \A h \in Tasks :
            /\ (task[h].probe # "hit" /\ task'[h].probe = "hit") =>
                  /\ task[h].pc = "should_reply"
                  /\ now - cache.timestamp < STATUS_CACHE_TTL_SEC
                  /\ task'[h].is_admin_online = Some(cache.is_online)
                  /\ UNCHANGED <<cache, probes>>
            /\ (task[h].pc # "GetUsersRequest" /\ task'[h].pc = "GetUsersRequest") =>
                  /\ task[h].pc = "should_reply"
                  /\ ~(now - cache.timestamp < STATUS_CACHE_TTL_SEC)
                  /\ task[h].probe = "none"
                  /\ UNCHANGED <<cache, probes>>
            /\ Probes(h) =>
                  /\ probes' = probes + 1
                  /\ task'[h].pc = "SetTypingRequest"
                  /\ task'[h].probe \in {"ok", "error"}
                  /\ task'[h].is_admin_online = Some(cache'.is_online)
                  /\ cache'.timestamp = now
       /\ probes' # probes => \E h \in Tasks : Probes(h)
       /\ cache' # cache => (crashes' # crashes \/ \E h \in Tasks : Probes(h))
       /\ sent' # sent =>
             \E h \in Tasks :
                /\ task[h].pc = "reply"
                /\ task[h].probe \in {"hit", "ok", "error"}
                /\ sent' = sent \cup {[to |-> task[h].sender_id, at |-> now, by |-> h,
                                        online |-> task[h].is_admin_online]}]_vars

C19_Witness ==
    \E h \in Tasks : \E g \in Tasks \ {h} :
        /\ task[g].probe = "ok"
        /\ task[h].probe = "hit"
        /\ probes = 1
        /\ \E s \in sent : s.by = h /\ s.online = Some(TRUE)

\* C20: a failed probe is cached for the ttl: within ttl seconds of a probe
\* error the cache holds is_online = False (stamped by that probe or
\* later), so that no event of that interval gets the online variant.
C20_FailedProbeIsCached ==
    (now < StartTime + STATUS_CACHE_TTL_SEC /\ \E g \in Tasks : task[g].probe = "error") =>
        (cache.is_online = FALSE /\ cache.timestamp >= StartTime)

====
